---------------------------- MODULE Spec2Model ----------------------------
(***************************************************************************)
(* A model of the three command-line scripts of split-and-spectro:         *)
(*   split_audio.py           segments a recording, optional FFT features  *)
(*   generate_spectrogram.py  renders one image per audio file             *)
(*   index_dataset.py         train/test split of labelled directories     *)
(*                                                                         *)
(* Strings (file names, extensions, labels) are sequences of code points,  *)
(* so that lower(), splitext(), sorting and number formatting are computed *)
(* the way Python computes them.                                           *)
(***************************************************************************)
EXTENDS Integers, Sequences, FiniteSets, TLC

VARIABLES pc,             \* position of the running script
          script,         \* which entry point runs
          args,           \* the parsed command line (argparse namespace)
          fs,             \* the input side of the file system
          cursor,         \* index of the loop the script is in
          decoded,        \* names handed to the decoder, in order
          segments,       \* segment files exported, in order
          fftFiles,       \* FFT tables saved, in order
          pngFiles,       \* spectrogram images saved, in order
          exitStatus,     \* process exit status once the script has ended
          items,          \* index_dataset: the sorted (dir, cat) pairs
          category_to_id, \* index_dataset: the label -> id dictionary
          outTree,        \* index_dataset: files under <name>_train / <name>_test
          rows            \* index_dataset: rows of the two index.csv files

vars == <<pc, script, args, fs, cursor, decoded, segments, fftFiles, pngFiles,
          exitStatus, items, category_to_id, outTree, rows>>

--------------------------------------------------------------------------
(* Bounds of the model *)

\* longest listing of an input directory
MaxFiles == 2
\* largest --segment-length tried
MaxSegmentLength == 3
\* short recordings last up to this many whole seconds, plus a few milliseconds
MaxSeconds == 6
\* long recordings, in seconds, up to this many
MaxLongSeconds == 10001
\* longest list of label directories given to index_dataset.py
MaxDirs == 2
\* most files of one label when only the train count is computed
MaxLabelFiles == 50
\* decimals of the split fraction when only the train count is computed
SplitDecimals == 2

--------------------------------------------------------------------------
(* Strings *)

Min(a, b) == IF a < b THEN a ELSE b
Max(a, b) == IF a < b THEN b ELSE a

\* str.lower() on ASCII
Lower(s) == [i \in DOMAIN s |-> IF s[i] >= 65 /\ s[i] <= 90 THEN s[i] + 32 ELSE s[i]]

\* index of the last "." of s, 0 when there is none (str.rfind)
RFindDot(s) ==
    LET dots == {i \in DOMAIN s : s[i] = 46}
    IN  IF dots = {} THEN 0 ELSE CHOOSE i \in dots : \A j \in dots : j <= i

\* os.path.splitext on a name without directory part: the extension starts at
\* the last dot, unless only dots come before it
SplitExt(s) ==
    LET d == RFindDot(s)
    IN  IF d > 0 /\ \E i \in 1..(d - 1) : s[i] # 46
        THEN <<SubSeq(s, 1, d - 1), SubSeq(s, d, Len(s))>>
        ELSE <<s, <<>>>>

\* {'.wav', '.mp3', '.m4a', '.aac', '.flac', '.ogg', '.wma', '.mp4'}
AUDIO_EXTENSIONS ==
    { <<46, 119, 97, 118>>, <<46, 109, 112, 51>>, <<46, 109, 52, 97>>,
      <<46, 97, 97, 99>>, <<46, 102, 108, 97, 99>>, <<46, 111, 103, 103>>,
      <<46, 119, 109, 97>>, <<46, 109, 112, 52>> }

\* decimal digits of i >= 0, most significant first
RECURSIVE Digits(_)
Digits(i) == IF i < 10 THEN <<48 + i>> ELSE Append(Digits(i \div 10), 48 + (i % 10))

\* a run of n "0" characters
Zeros(n) == [j \in 1..n |-> 48]

\* the width of the ordinal field, the 4 of {i:04d}
OrdinalWidth == 4

\* the width-3 rendering a slip in the format would give
Format04dNarrow(i) == Zeros(Max(0, 3 - Len(Digits(i)))) \o Digits(i)

\* f"{i:04d}" for i >= 0: at least OrdinalWidth digits, zero-padded on the left
Format04d(i) == Zeros(Max(0, OrdinalWidth - Len(Digits(i)))) \o Digits(i)

\* f"{basename}_part{i:04d}.{output_ext}" with output_ext = 'wav'
OutName(basename, i) ==
    basename \o <<95, 112, 97, 114, 116>> \o Format04d(i) \o <<46, 119, 97, 118>>

--------------------------------------------------------------------------
(* Recordings and the FFT of one segment *)

\* A file of the input tree: its name, whether the decoder can read it, and
\* the decoded recording (duration in ms, frames per second, channels, and a
\* seed that fixes the sample values).
\* sample of frame j on channel c: one of -200, 0, 200
Sample(f, j, c) == 200 * (((j + f.seed + c) % 3) - 1)

\* segment.set_channels(1) on a stereo segment averages the two channels;
\* a mono segment is taken as it is
MonoSample(f, j) ==
    IF f.channels = 1 THEN Sample(f, j, 0)
    ELSE (Sample(f, j, 0) + Sample(f, j, 1)) \div 2

\* np.array(seg_mono.get_array_of_samples()) of the segment [start_ms, end_ms)
Samples(f, start_ms, end_ms) ==
    LET first == (start_ms * f.frame_rate) \div 1000
        last  == (end_ms * f.frame_rate) \div 1000
    IN  [i \in 1..(last - first) |-> MonoSample(f, first + i - 1)]

\* 2*cos(2*pi*m/n), an integer for n in {1, 2, 3, 4, 6}
TwoCos(n, m) ==
    LET r == m % n
    IN  CASE n = 1 -> 2
          [] n = 2 -> IF r = 0 THEN 2 ELSE -2
          [] n = 3 -> IF r = 0 THEN 2 ELSE -1
          [] n = 4 -> IF r = 0 THEN 2 ELSE IF r = 2 THEN -2 ELSE 0
          [] n = 6 -> IF r = 0 THEN 2 ELSE IF r = 3 THEN -2
                      ELSE IF r \in {1, 5} THEN 1 ELSE -1

\* np.hamming(N), in hundredths: 0.54 - 0.46*cos(2*pi*i/(N-1)), and [1.0] for N = 1
Hamming(N) ==
    [i \in 1..N |-> IF N = 1 THEN 100 ELSE 54 - 23 * TwoCos(N - 1, i - 1)]

\* samples * window (the samples are multiples of 100: the product is exact)
Windowed(samples) ==
    LET w == Hamming(Len(samples))
    IN  [i \in DOMAIN samples |-> (samples[i] * w[i]) \div 100]

RECURSIVE SumTo(_, _)
\* t[1] + ... + t[n]
SumTo(t, n) == IF n = 0 THEN 0 ELSE t[n] + SumTo(t, n - 1)

\* largest r with r*r <= p, for p >= 0
RECURSIVE ISqrt(_)
ISqrt(p) ==
    IF p < 2 THEN p
    ELSE IF (2 * ISqrt(p \div 4) + 1) * (2 * ISqrt(p \div 4) + 1) <= p
         THEN 2 * ISqrt(p \div 4) + 1
         ELSE 2 * ISqrt(p \div 4)

\* sqrt(p) rounded to the nearest integer
RoundSqrt(p) ==
    LET r == ISqrt(p)
    IN  IF p - r * r > r THEN r + 1 ELSE r

\* bin k of rfft(y, n): y is cut or zero-padded to n points; the squared
\* magnitude is sum_i sum_j y_i*y_j*cos(2*pi*k*(i-j)/n)
BinPower(y, n, k) ==
    LET m == Min(Len(y), n)
        row(i) == SumTo([j \in 1..m |-> y[i] * y[j] * TwoCos(n, k * (i - j + n))], m)
    IN  SumTo([i \in 1..m |-> row(i)], m) \div 2

\* np.round(np.abs(fft_result[k]), decimals=6), at the resolution of one
\* sample unit
BinMagnitude(y, n, k) == RoundSqrt(BinPower(y, n, k))

\* the full-spectrum length a complex fft would return
FftLen(n) == n

\* number of bins rfft(x, n) returns
RfftLen(n) == n \div 2 + 1

\* np.round(np.abs(rfft(windowed_samples, n=fft_n)), decimals=6)
Spectrum(y, n) == [k \in 1..RfftLen(n) |-> BinMagnitude(y, n, k - 1)]

--------------------------------------------------------------------------
(* split_audio(input_file, segment_length, output_dir, compute_fft,       *)
(*             fft_length, fft_dir)                                       *)

\* len(range(0, stop, step)) for stop >= 0 and step # 0
RangeLen(stop, step) == IF step > 0 THEN (stop + step - 1) \div step ELSE 0

\* enumerate(range(0, duration_ms, segment_ms)) with end = min(start + segment_ms,
\* duration_ms): the steps of the walk, in order
Walk(duration_ms, segment_ms) ==
    [n \in 1..RangeLen(duration_ms, segment_ms) |->
        [i |-> n - 1, start |-> (n - 1) * segment_ms,
         end |-> Min((n - 1) * segment_ms + segment_ms, duration_ms)]]

\* a walk that keeps the trailing partial segment too
KeptAll(steps, segment_length) == steps

\* the steps that are not skipped by `if len(segment) < segment_length * 1000`
Kept(steps, segment_length) ==
    LET Full(st) == ~(st.end - st.start < segment_length * 1000)
    IN  SelectSeq(steps, Full)

\* the FFT table written for one kept step
FftOf(f, basename, st, fft_length) ==
    LET y     == Windowed(Samples(f, st.start, st.end))
        fft_n == IF fft_length # 0 THEN fft_length ELSE Len(y)
    IN  [name   |-> SplitExt(OutName(basename, st.i))[1]
                      \o <<95, 102, 102, 116, 46, 99, 115, 118>>,
         vector |-> Spectrum(y, fft_n)]

\* The whole call: what it exported and saved, and the exception it ended with
\* ("" when it returned).  has_fft_dir is `fft_dir is not None`.
SplitAudio(f, segment_length, compute_fft, fft_length, has_fft_dir) ==
    LET basename   == SplitExt(f.name)[1]
        segment_ms == segment_length * 1000
        kept       == Kept(Walk(f.duration_ms, segment_ms), segment_length)
        SegOf(st)  == [name |-> OutName(basename, st.i), start |-> st.start,
                       end |-> st.end, source |-> f.name]
        fft_n_bad  == (IF fft_length # 0 THEN fft_length
                       ELSE (segment_ms * f.frame_rate) \div 1000) < 1
    IN  IF ~f.decodable
        THEN [raised |-> "CouldntDecodeError", segments |-> <<>>, ffts |-> <<>>]
        ELSE IF segment_ms = 0
        THEN [raised |-> "ValueError", segments |-> <<>>, ffts |-> <<>>]
        ELSE IF compute_fft /\ kept # <<>> /\ (~has_fft_dir \/ fft_n_bad)
        THEN [raised |-> "ValueError", segments |-> <<SegOf(kept[1])>>, ffts |-> <<>>]
        ELSE [raised   |-> "",
              segments |-> [n \in DOMAIN kept |-> SegOf(kept[n])],
              ffts     |-> IF compute_fft
                           THEN [n \in DOMAIN kept |-> FftOf(f, basename, kept[n], fft_length)]
                           ELSE <<>>]

--------------------------------------------------------------------------
(* One call of split_audio on one recording, FFT off *)

\* "a.wav"
NameA == <<97, 46, 119, 97, 118>>

ShortDurations == {s * 1000 + d : s \in 0..MaxSeconds, d \in {0, 1, 500, 999}}
LongDurations  == {s * 1000 + 500 : s \in (MaxLongSeconds - 2)..MaxLongSeconds}

Idle == [none |-> TRUE]

InitSegmenter ==
    /\ pc = "call"
    /\ script = "split_audio()"
    /\ \E d \in ShortDurations \cup LongDurations, l \in (-1)..MaxSegmentLength :
          /\ fs = [kind |-> "file",
                   listing |-> <<[name |-> NameA, decodable |-> TRUE, duration_ms |-> d,
                                  frame_rate |-> 1000, channels |-> 1, seed |-> 0]>>]
          /\ args = [segment_length |-> l, fft |-> FALSE, fft_length |-> 1,
                     fft_dir |-> FALSE]
    /\ cursor = 1
    /\ decoded = <<>>
    /\ segments = <<>>
    /\ fftFiles = <<>>
    /\ pngFiles = <<>>
    /\ exitStatus = "running"
    /\ items = Idle
    /\ category_to_id = Idle
    /\ outTree = Idle
    /\ rows = Idle

\* split_audio(recording, segment_length, ...) is called once and returns or raises
CallSplitAudio ==
    /\ pc = "call"
    /\ LET r == SplitAudio(fs.listing[1], args.segment_length, args.fft,
                           args.fft_length, args.fft_dir)
       IN  /\ decoded' = Append(decoded, fs.listing[1].name)
           /\ segments' = r.segments
           /\ fftFiles' = r.ffts
           /\ pc' = IF r.raised = "" THEN "returned" ELSE "raised"
    /\ UNCHANGED <<script, args, fs, cursor, pngFiles, exitStatus, items,
                   category_to_id, outTree, rows>>

NextSegmenter == CallSplitAudio

SpecSegmenter == InitSegmenter /\ [][NextSegmenter]_vars

--------------------------------------------------------------------------
(* Segment count and segment names (split_audio on one recording) *)

\* the ordinal field of an exported name: what stands between "_part" and ".wav"
OrdinalField(name, source) ==
    SubSeq(name, Len(SplitExt(source)[1]) + 6, Len(name) - 4)

\* the number a run of decimal digits denotes
RECURSIVE ParseDecimal(_)
ParseDecimal(d) ==
    IF Len(d) = 0 THEN 0
    ELSE 10 * ParseDecimal(SubSeq(d, 1, Len(d) - 1)) + (d[Len(d)] - 48)

IsDigits(d) == \A j \in DOMAIN d : d[j] >= 48 /\ d[j] <= 57

\* the call has ended (returned or raised) with a positive segment length
SegmenterEnded == pc \in {"returned", "raised"} /\ args.segment_length > 0

\* C1: for a recording of D ms and a positive segment length of L seconds,
\* split_audio returns without error, keeps exactly floor(D / (L*1000))
\* segments, and each kept segment is exactly L*1000 ms long (so none is kept
\* when D < L*1000).
C1_SegmentCount ==
    SegmenterEnded =>
        /\ pc = "returned"
        /\ Len(segments) = fs.listing[1].duration_ms \div (args.segment_length * 1000)
        /\ \A n \in DOMAIN segments :
              segments[n].end - segments[n].start = args.segment_length * 1000

\* C1 witness: a call that kept two or more segments and dropped a trailing
\* partial one
C1_Witness ==
    /\ pc = "returned"
    /\ args.segment_length > 0
    /\ Len(segments) >= 2
    /\ fs.listing[1].duration_ms % (args.segment_length * 1000) # 0

\* C2 as claimed: the ordinals of the kept segments are 0, 1, ..., k-1 in time
\* order and each is rendered with exactly 4 digits.
C2_ExactlyFourDigits ==
    SegmenterEnded =>
        \A n \in DOMAIN segments :
            LET field == OrdinalField(segments[n].name, segments[n].source)
            IN  /\ IsDigits(field)
                /\ ParseDecimal(field) = n - 1
                /\ Len(field) = 4

\* C2 amended: the ordinals of the kept segments are 0, 1, ..., k-1 in time
\* order (strictly increasing, no gap); each is rendered in decimal,
\* zero-padded to at least 4 digits: exactly 4 digits below 10000, and
\* unpadded (5 or more digits) from 10000 on.
C2_AtLeastFourDigits ==
    SegmenterEnded =>
        /\ \A n \in DOMAIN segments :
              LET field == OrdinalField(segments[n].name, segments[n].source)
              IN  /\ IsDigits(field)
                  /\ ParseDecimal(field) = n - 1
                  /\ Len(field) >= 4
                  /\ (n - 1 < 10000 => Len(field) = 4)
                  /\ (n - 1 >= 10000 => field[1] # 48)
        /\ \A n \in 1..(Len(segments) - 1) : segments[n].start < segments[n + 1].start

\* C2 witness: a call that kept more than 10000 segments
C2_Witness ==
    /\ pc = "returned"
    /\ Len(segments) > 10000
    /\ Len(OrdinalField(segments[10001].name, segments[10001].source)) = 5

--------------------------------------------------------------------------
(* The command-line runs of split_audio.py and generate_spectrogram.py *)

Range(q) == {q[n] : n \in DOMAIN q}

\* a < b for two strings, the way Python compares str: by code point, a proper
\* prefix first
LexLess(a, b) ==
    LET m    == Min(Len(a), Len(b))
        diff == {i \in 1..m : a[i] # b[i]}
    IN  IF diff = {} THEN Len(a) < Len(b)
        ELSE LET i == CHOOSE j \in diff : \A h \in diff : j <= h
             IN  a[i] < b[i]

\* q sorted by the str keys key[1], ..., key[Len(q)] of its elements: an element
\* goes after those of a smaller key and after those of an equal key that came
\* before it (sorted and list.sort are stable)
StableSort(q, key) ==
    LET pos(i) == 1 + Cardinality({j \in DOMAIN q :
                        LexLess(key[j], key[i]) \/ (~LexLess(key[i], key[j]) /\ j < i)})
    IN  [p \in DOMAIN q |-> q[CHOOSE i \in DOMAIN q : pos(i) = p]]

\* "b.MP3", "c.wav", "d.txt"
NameB == <<98, 46, 77, 80, 51>>
NameC == <<99, 46, 119, 97, 118>>
NameD == <<100, 46, 116, 120, 116>>

\* The files an input tree is made of: two recordings, a corrupt .wav and a
\* text file.  Their recordings have one frame per second.
InputFiles ==
    { [name |-> NameA, decodable |-> TRUE, duration_ms |-> 2000, frame_rate |-> 1,
       channels |-> 1, seed |-> 0],
      [name |-> NameB, decodable |-> TRUE, duration_ms |-> 3000, frame_rate |-> 1,
       channels |-> 2, seed |-> 1],
      [name |-> NameC, decodable |-> FALSE, duration_ms |-> 0, frame_rate |-> 1,
       channels |-> 1, seed |-> 0],
      [name |-> NameD, decodable |-> FALSE, duration_ms |-> 0, frame_rate |-> 1,
       channels |-> 1, seed |-> 0] }

\* listings of a directory: up to MaxFiles distinct files, in any order
Listings ==
    UNION { {q \in [1..n -> InputFiles] : \A i, j \in 1..n : i # j => q[i] # q[j]}
            : n \in 0..MaxFiles }

\* --input names a directory, a file, or nothing that exists
Inputs ==
    {[kind |-> "dir", listing |-> q] : q \in Listings}
    \cup {[kind |-> "file", listing |-> <<f>>] : f \in InputFiles}
    \cup {[kind |-> "missing", listing |-> <<>>]}

\* --fft-length values tried: the transform is computed exactly for these
FftLengths == {-1, 0, 1, 2, 3, 4, 6}

\* default of --fft-length
DefaultFftLength == 1023

\* command lines of split_audio.py; without --fft the FFT options keep their
\* defaults
SplitArgs ==
    {[segment_length |-> l, fft |-> FALSE, fft_length |-> DefaultFftLength,
      fft_dir |-> FALSE] : l \in (-1)..MaxSegmentLength}
    \cup {[segment_length |-> l, fft |-> TRUE, fft_length |-> n, fft_dir |-> d] :
            l \in (-1)..MaxSegmentLength, n \in FftLengths, d \in BOOLEAN}

\* command lines of generate_spectrogram.py
SpectroArgs == {[spectrogram_size |-> 16]}

Init ==
    /\ pc = "start"
    /\ script \in {"split_audio", "generate_spectrogram"}
    /\ args \in (IF script = "split_audio" THEN SplitArgs ELSE SpectroArgs)
    /\ fs \in Inputs
    /\ cursor = 1
    /\ decoded = <<>>
    /\ segments = <<>>
    /\ fftFiles = <<>>
    /\ pngFiles = <<>>
    /\ exitStatus = "running"
    /\ items = Idle
    /\ category_to_id = Idle
    /\ outTree = Idle
    /\ rows = Idle

\* a validation that only asks for --fft-dir
FftOptionsErrorNoLength(a) ==
    IF a.fft /\ ~a.fft_dir THEN "--fft-dir is required when --fft is specified"
    ELSE ""

\* the message parser.error is called with while the FFT options are
\* validated, "" when they pass
FftOptionsError(a) ==
    IF a.fft /\ ~a.fft_dir THEN "--fft-dir is required when --fft is specified"
    ELSE IF a.fft /\ a.fft_length <= 0 THEN "--fft-length must be a positive integer"
    ELSE ""

\* ext in AUDIO_EXTENSIONS for ext = os.path.splitext(filename)[1].lower()
IsAudioName(name) == Lower(SplitExt(name)[2]) \in AUDIO_EXTENSIONS

Unchanged_index == UNCHANGED <<items, category_to_id, outTree, rows>>

\* where main goes after the options: the directory walk, the single file, or
\* parser.error for an input that is neither
Dispatch ==
    IF fs.kind = "dir" THEN /\ pc' = "walk" /\ exitStatus' = exitStatus
    ELSE IF fs.kind = "file" THEN /\ pc' = "single" /\ exitStatus' = exitStatus
    ELSE /\ pc' = "done" /\ exitStatus' = "2"

\* split_audio.py main: parse_args, FFT option validation, the makedirs calls
SplitMain ==
    /\ script = "split_audio" /\ pc = "start"
    /\ IF FftOptionsError(args) # ""
       THEN /\ pc' = "done" /\ exitStatus' = "2"
       ELSE Dispatch
    /\ UNCHANGED <<script, args, fs, cursor, decoded, segments, fftFiles, pngFiles>>
    /\ Unchanged_index

\* the effect of one split_audio call made by main on file f: an exception is
\* not caught, the interpreter prints the traceback and exits with status 1
SplitCall(f, pcNext, statusNext) ==
    LET r == SplitAudio(f, args.segment_length, args.fft, args.fft_length,
                        IF args.fft THEN args.fft_dir ELSE FALSE)
    IN  /\ decoded' = Append(decoded, f.name)
        /\ segments' = segments \o r.segments
        /\ fftFiles' = fftFiles \o r.ffts
        /\ IF r.raised # ""
           THEN /\ pc' = "done" /\ exitStatus' = "1"
           ELSE /\ pc' = pcNext /\ exitStatus' = statusNext

\* for filename in filenames: an audio file is split
SplitWalkFile ==
    /\ script = "split_audio" /\ pc = "walk"
    /\ cursor <= Len(fs.listing)
    /\ IsAudioName(fs.listing[cursor].name)
    /\ SplitCall(fs.listing[cursor], "walk", exitStatus)
    /\ cursor' = cursor + 1
    /\ UNCHANGED <<script, args, fs, pngFiles>>
    /\ Unchanged_index

\* for filename in filenames: any other file is passed over
SplitWalkSkip ==
    /\ script = "split_audio" /\ pc = "walk"
    /\ cursor <= Len(fs.listing)
    /\ ~IsAudioName(fs.listing[cursor].name)
    /\ cursor' = cursor + 1
    /\ UNCHANGED <<pc, script, args, fs, decoded, segments, fftFiles, pngFiles, exitStatus>>
    /\ Unchanged_index

\* the walk is over and main returns
SplitWalkEnd ==
    /\ script = "split_audio" /\ pc = "walk"
    /\ cursor > Len(fs.listing)
    /\ pc' = "done" /\ exitStatus' = "0"
    /\ UNCHANGED <<script, args, fs, cursor, decoded, segments, fftFiles, pngFiles>>
    /\ Unchanged_index

\* elif os.path.isfile(args.input): the file is split whatever its name
SplitSingle ==
    /\ script = "split_audio" /\ pc = "single"
    /\ SplitCall(fs.listing[1], "done", "0")
    /\ UNCHANGED <<script, args, fs, cursor, pngFiles>>
    /\ Unchanged_index

\* sorted(filenames)
SortedListing == StableSort(fs.listing, [n \in DOMAIN fs.listing |-> fs.listing[n].name])

\* generate_spectrogram.py main: parse_args and makedirs; nothing is validated
SpectroMain ==
    /\ script = "generate_spectrogram" /\ pc = "start"
    /\ Dispatch
    /\ UNCHANGED <<script, args, fs, cursor, decoded, segments, fftFiles, pngFiles>>
    /\ Unchanged_index

\* generate_spectrogram(f, ...): librosa.load, then the image f"{basename}.png";
\* a load error is not caught
SpectroCall(f, pcNext, statusNext) ==
    /\ decoded' = Append(decoded, f.name)
    /\ IF f.decodable
       THEN /\ pngFiles' = Append(pngFiles, SplitExt(f.name)[1] \o <<46, 112, 110, 103>>)
            /\ pc' = pcNext /\ exitStatus' = statusNext
       ELSE /\ pngFiles' = pngFiles
            /\ pc' = "done" /\ exitStatus' = "1"

SpectroWalkFile ==
    /\ script = "generate_spectrogram" /\ pc = "walk"
    /\ cursor <= Len(fs.listing)
    /\ IsAudioName(SortedListing[cursor].name)
    /\ SpectroCall(SortedListing[cursor], "walk", exitStatus)
    /\ cursor' = cursor + 1
    /\ UNCHANGED <<script, args, fs, segments, fftFiles>>
    /\ Unchanged_index

SpectroWalkSkip ==
    /\ script = "generate_spectrogram" /\ pc = "walk"
    /\ cursor <= Len(fs.listing)
    /\ ~IsAudioName(SortedListing[cursor].name)
    /\ cursor' = cursor + 1
    /\ UNCHANGED <<pc, script, args, fs, decoded, segments, fftFiles, pngFiles, exitStatus>>
    /\ Unchanged_index

SpectroWalkEnd ==
    /\ script = "generate_spectrogram" /\ pc = "walk"
    /\ cursor > Len(fs.listing)
    /\ pc' = "done" /\ exitStatus' = "0"
    /\ UNCHANGED <<script, args, fs, cursor, decoded, segments, fftFiles, pngFiles>>
    /\ Unchanged_index

SpectroSingle ==
    /\ script = "generate_spectrogram" /\ pc = "single"
    /\ SpectroCall(fs.listing[1], "done", "0")
    /\ UNCHANGED <<script, args, fs, cursor, segments, fftFiles>>
    /\ Unchanged_index

Next ==
    \/ SplitMain
    \/ SplitWalkFile
    \/ SplitWalkSkip
    \/ SplitWalkEnd
    \/ SplitSingle
    \/ SpectroMain
    \/ SpectroWalkFile
    \/ SpectroWalkSkip
    \/ SpectroWalkEnd
    \/ SpectroSingle

Spec == Init /\ [][Next]_vars

--------------------------------------------------------------------------
(* Properties of the command-line runs *)

\* the options pass every validation the segmenting script is meant to make
OptionsValid ==
    script = "split_audio" =>
        /\ args.segment_length > 0
        /\ (args.fft => args.fft_dir /\ args.fft_length > 0)

\* C3 as claimed: in a directory run a failure on one audio file is caught, the
\* file is skipped and the walk goes on, so every audio file of the listing
\* is handed to the decoder and the run ends with status 0.
C3_FailureIsolated ==
    (pc = "done" /\ fs.kind = "dir" /\ OptionsValid) =>
        /\ exitStatus = "0"
        /\ \A n \in DOMAIN fs.listing :
              IsAudioName(fs.listing[n].name) => fs.listing[n].name \in Range(decoded)

\* C4: a run that asks for FFT extraction with fft_length <= 0 never decodes,
\* segments or writes anything, and ends with the parameter error (status 2).
C4_FftLengthRejectedFirst ==
    (script = "split_audio" /\ args.fft /\ args.fft_length <= 0) =>
        /\ decoded = <<>>
        /\ segments = <<>>
        /\ fftFiles = <<>>
        /\ (pc = "done" => exitStatus = "2")

\* C4 witness: such a run, with --fft-dir given and an input directory that
\* holds a readable recording, has ended
C4_Witness ==
    /\ script = "split_audio" /\ pc = "done"
    /\ args.fft /\ args.fft_dir /\ args.fft_length <= 0
    /\ args.segment_length = 1
    /\ fs.kind = "dir"
    /\ \E n \in DOMAIN fs.listing :
          fs.listing[n].decodable /\ IsAudioName(fs.listing[n].name)

\* C5 as claimed: a run of the segmenting script with segment length <= 0 is
\* rejected before any input file is touched and ends with a non-zero status.
C5_SegmentLengthRejected ==
    (script = "split_audio" /\ args.segment_length <= 0) =>
        /\ decoded = <<>>
        /\ (pc = "done" => exitStatus # "0")

\* C8: every saved feature vector has fft_length // 2 + 1 entries, none of
\* them negative.
C8_FeatureVectorShape ==
    \A n \in DOMAIN fftFiles :
        /\ Len(fftFiles[n].vector) = args.fft_length \div 2 + 1
        /\ \A k \in DOMAIN fftFiles[n].vector : fftFiles[n].vector[k] >= 0

\* C8 witness: a finished run saved one table per segment, two or more, for
\* the odd FFT length 3, with a non-zero magnitude among the entries
C8_Witness ==
    /\ pc = "done" /\ exitStatus = "0"
    /\ args.fft_length = 3
    /\ Len(fftFiles) >= 2 /\ Len(fftFiles) = Len(segments)
    /\ \E n \in DOMAIN fftFiles : \E k \in DOMAIN fftFiles[n].vector :
          fftFiles[n].vector[k] > 0

\* C9 as claimed: only files whose lower-cased extension is in the allow-list
\* are handed to the decoder, in a directory walk and for a file given as the
\* input path alike.
C9_OnlyAllowListedDecoded ==
    OptionsValid => \A n \in DOMAIN decoded : IsAudioName(decoded[n])

--------------------------------------------------------------------------
(* Python floats (IEEE 754 binary64), for int(len(files) * split)          *)
(*                                                                         *)
(* A positive float is [zero |-> FALSE, bits, exp]: bits are the 53 bits   *)
(* of the significand, most significant first (bits[1] = 1), and the value *)
(* is 1.bits[2]bits[3]... * 2^exp.  Rounding is to nearest, ties to even.  *)

Precision == 53

RECURSIVE Pow2(_)
Pow2(n) == IF n = 0 THEN 1 ELSE 2 * Pow2(n - 1)

RECURSIVE Pow10(_)
Pow10(n) == IF n = 0 THEN 1 ELSE 10 * Pow10(n - 1)

\* the number a run of bits denotes
RECURSIVE BitsToInt(_)
BitsToInt(b) ==
    IF Len(b) = 0 THEN 0 ELSE 2 * BitsToInt(SubSeq(b, 1, Len(b) - 1)) + b[Len(b)]

\* the bits of n >= 0, most significant first (no bits for 0)
RECURSIVE IntToBits(_)
IntToBits(n) == IF n = 0 THEN <<>> ELSE Append(IntToBits(n \div 2), n % 2)

\* b + 1 on a run of bits of fixed length; carry is 1 when it overflows
Increment(b) ==
    LET zeros == {i \in DOMAIN b : b[i] = 0}
    IN  IF zeros = {}
        THEN [bits |-> [i \in DOMAIN b |-> IF i = 1 THEN 1 ELSE 0], carry |-> 1]
        ELSE LET p == CHOOSE i \in zeros : \A j \in zeros : j <= i
             IN  [bits  |-> [i \in DOMAIN b |-> IF i < p THEN b[i] ELSE IF i = p THEN 1 ELSE 0],
                  carry |-> 0]

\* the significand b (Precision bits) rounded by what follows it: up says
\* whether the discarded part is above half, tie whether it is exactly half
RoundBits(b, e, up, tie) ==
    IF up \/ (tie /\ b[Precision] = 1)
    THEN LET inc == Increment(b)
         IN  [zero |-> FALSE, bits |-> inc.bits, exp |-> e + inc.carry]
    ELSE [zero |-> FALSE, bits |-> b, exp |-> e]

\* 2^i modulo d, by repeated squaring
RECURSIVE PowMod2(_, _)
PowMod2(i, d) ==
    IF i = 0 THEN 1 % d
    ELSE IF i % 2 = 0 THEN (PowMod2(i \div 2, d) * PowMod2(i \div 2, d)) % d
    ELSE (2 * PowMod2(i - 1, d)) % d

\* the remainder of the long division r/d (0 <= r < d) after i quotient bits
RemainderAfter(r, d, i) == (r * PowMod2(i, d)) % d

\* the first n quotient bits of r/d (0 <= r < d), and the remainder after them
DivBits(r, d, n) ==
    [bits |-> [i \in 1..n |-> IF 2 * RemainderAfter(r, d, i - 1) >= d THEN 1 ELSE 0],
     rem  |-> RemainderAfter(r, d, n)]

\* the exponent of num/den: the e with 2^e <= num/den < 2^(e+1)
RECURSIVE ExponentOf(_, _, _)
ExponentOf(num, den, e) ==
    IF num >= 2 * den THEN ExponentOf(num, 2 * den, e + 1)
    ELSE IF num < den THEN ExponentOf(2 * num, den, e - 1)
    ELSE e

\* float("num/den" written in decimal): the double nearest to num/den
FloatOfRatio(num, den) ==
    IF num = 0 THEN [zero |-> TRUE, bits |-> <<>>, exp |-> 0]
    ELSE LET e == ExponentOf(num, den, 0)
             a == IF e < 0 THEN num * Pow2(-e) ELSE num
             d == IF e > 0 THEN den * Pow2(e) ELSE den
             q == DivBits(a - d, d, Precision - 1)
         IN  RoundBits(<<1>> \o q.bits, e, 2 * q.rem > d, 2 * q.rem = d)

\* the significand is multiplied in three limbs of LimbWidth bits, so that no
\* partial product leaves the 32-bit integers
LimbWidth == 18

\* v as exactly w bits, most significant first (0 <= v < 2^w)
BitsOfWidth(v, w) == [i \in 1..w |-> (v \div Pow2(w - i)) % 2]

\* n * b for a run b of Precision bits, as bits: limb by limb from the right,
\* each limb's carry going into the next
MulBits(b, n) ==
    LET low  == BitsToInt(SubSeq(b, Precision - LimbWidth + 1, Precision))
        mid  == BitsToInt(SubSeq(b, Precision - 2 * LimbWidth + 1, Precision - LimbWidth))
        top  == BitsToInt(SubSeq(b, 1, Precision - 2 * LimbWidth))
        p0   == n * low
        p1   == n * mid + p0 \div Pow2(LimbWidth)
        p2   == n * top + p1 \div Pow2(LimbWidth)
    IN  IntToBits(p2) \o BitsOfWidth(p1 % Pow2(LimbWidth), LimbWidth)
                      \o BitsOfWidth(p0 % Pow2(LimbWidth), LimbWidth)

\* n * x for an int n >= 1 and a float x > 0: the exact product, rounded once
FloatTimesInt(x, n) ==
    LET p    == MulBits(x.bits, n)
        d    == Len(p) - Precision
        tail == SubSeq(p, Precision + 1, Len(p))
        rest == {i \in 2..d : tail[i] = 1}
    IN  IF d = 0 THEN [zero |-> FALSE, bits |-> p, exp |-> x.exp]
        ELSE RoundBits(SubSeq(p, 1, Precision), x.exp + d,
                       tail[1] = 1 /\ rest # {}, tail[1] = 1 /\ rest = {})

\* int(x) for a float x >= 0: the integer part
IntOfFloat(x) ==
    IF x.zero \/ x.exp < 0 THEN 0 ELSE BitsToInt(SubSeq(x.bits, 1, x.exp + 1))

\* 0.0 < x < 1.0
InOpenUnit(x) == ~x.zero /\ x.exp < 0

\* n_train = int(len(files) * split)
NTrain(n, split) == IF split.zero THEN 0 ELSE IntOfFloat(FloatTimesInt(split, n))

--------------------------------------------------------------------------
(* The train count alone: n files of one label and a split fraction *)

InitTrainCount ==
    /\ pc = "count"
    /\ script = "n_train"
    /\ \E n \in 1..MaxLabelFiles, k \in 1..(Pow10(SplitDecimals) - 1) :
          args = [n |-> n, num |-> k, den |-> Pow10(SplitDecimals)]
    /\ fs = Idle
    /\ cursor = 1
    /\ decoded = <<>>
    /\ segments = <<>>
    /\ fftFiles = <<>>
    /\ pngFiles = <<>>
    /\ exitStatus = "running"
    /\ items = Idle
    /\ category_to_id = Idle
    /\ outTree = Idle
    /\ rows = Idle

\* files[:n_train] and files[n_train:] of a list of n files
CountTrain ==
    /\ pc = "count"
    /\ LET n_train == NTrain(args.n, FloatOfRatio(args.num, args.den))
       IN  rows' = [train |-> Min(n_train, args.n), test |-> args.n - Min(n_train, args.n)]
    /\ pc' = "counted"
    /\ UNCHANGED <<script, args, fs, cursor, decoded, segments, fftFiles, pngFiles,
                   exitStatus, items, category_to_id, outTree>>

NextTrainCount == CountTrain

SpecTrainCount == InitTrainCount /\ [][NextTrainCount]_vars

\* C6 as claimed: for a label with n >= 1 files and a split fraction s with
\* 0 < s < 1, floor(n*s) files go to training, the others to test, and the two
\* counts add up to n.
C6_TrainCountIsFloor ==
    pc = "counted" =>
        /\ rows.train = (args.n * args.num) \div args.den
        /\ rows.train + rows.test = args.n

--------------------------------------------------------------------------
(* index_dataset.py *)

\* label names: "Dog", "ant", "bee", "ca", "cat"
LabelDog == <<68, 111, 103>>
LabelAnt == <<97, 110, 116>>
LabelBee == <<98, 101, 101>>
LabelCa  == <<99, 97>>
LabelCat == <<99, 97, 116>>

\* file names: "b.wav", "e.wav", "index.csv"; sub-directory "s"
NameBw    == <<98, 46, 119, 97, 118>>
NameE     == <<101, 46, 119, 97, 118>>
NameIndex == <<105, 110, 100, 101, 120, 46, 99, 115, 118>>
SubS      == <<115>>

\* The directories a command line can name.  path tells two directories of
\* the same basename apart; files are (sub-directory, name) pairs, the
\* sub-directory <<>> being the directory itself.
InputDirs ==
    { [path |-> 1, cat |-> LabelCat, isdir |-> TRUE,
       files |-> {<<<<>>, NameA>>, <<SubS, NameA>>, <<<<>>, NameBw>>}],
      [path |-> 2, cat |-> LabelCat, isdir |-> TRUE, files |-> {<<<<>>, NameC>>}],
      [path |-> 3, cat |-> LabelDog, isdir |-> TRUE,
       files |-> {<<<<>>, NameD>>, <<<<>>, NameIndex>>}],
      [path |-> 4, cat |-> LabelAnt, isdir |-> TRUE, files |-> {}],
      [path |-> 5, cat |-> LabelBee, isdir |-> FALSE, files |-> {}],
      [path |-> 6, cat |-> LabelCa, isdir |-> TRUE,
       files |-> {<<<<>>, NameE>>, <<<<>>, NameBw>>}] }

\* DIR [DIR ...]: one to MaxDirs directories, no directory twice
DirLists ==
    UNION { {q \in [1..n -> InputDirs] : \A i, j \in 1..n : i # j => q[i] # q[j]}
            : n \in 1..MaxDirs }

\* SPLIT values tried, as fractions: 0, 0.5, 0.67 and 1
Splits == {[num |-> 0, den |-> 1], [num |-> 1, den |-> 2], [num |-> 67, den |-> 100],
           [num |-> 1, den |-> 1]}

\* what an earlier run may have left under <output_name>_train/data
StaleTrees == { {}, {<<LabelBee, NameE>>} }

InitIndex ==
    /\ pc = "start"
    /\ script = "index_dataset"
    /\ \E s \in Splits, q \in DirLists :
          args = [split |-> FloatOfRatio(s.num, s.den), dirs |-> q]
    /\ fs = Idle
    /\ cursor = 1
    /\ decoded = <<>>
    /\ segments = <<>>
    /\ fftFiles = <<>>
    /\ pngFiles = <<>>
    /\ exitStatus = "running"
    /\ items = <<>>
    /\ category_to_id = <<>>
    /\ \E stale \in StaleTrees : outTree = [train |-> stale, test |-> {}, stale |-> stale]
    /\ rows = [train |-> {}, test |-> {}]

\* items after the isdir filter and items.sort(key=lambda x: x[1])
SortedItems(dirs) ==
    LET IsDir(d) == d.isdir
        found == SelectSeq(dirs, IsDir)
    IN  StableSort(found, [n \in DOMAIN found |-> found[n].cat])

\* {cat: idx for idx, (_, cat) in enumerate(items)}: a later pair of the same
\* label overwrites an earlier one
CategoryToId(its) ==
    [c \in {its[n].cat : n \in DOMAIN its} |->
        (CHOOSE n \in DOMAIN its : its[n].cat = c /\ \A m \in DOMAIN its : its[m].cat = c => m <= n) - 1]

\* category_to_id.get(cat): the id, or None (written -1)
CategoryIdOf(cat) == IF cat \in DOMAIN category_to_id THEN category_to_id[cat] ELSE -1

\* index_dataset.py main up to the loop over the labels: the split is checked,
\* the output directories are made, the items are filtered and sorted
IndexMain ==
    /\ script = "index_dataset" /\ pc = "start"
    /\ IF ~InOpenUnit(args.split)
       THEN /\ pc' = "done" /\ exitStatus' = "2"
            /\ UNCHANGED <<items, category_to_id>>
       ELSE IF SortedItems(args.dirs) = <<>>
       THEN /\ pc' = "done" /\ exitStatus' = "1"
            /\ UNCHANGED <<items, category_to_id>>
       ELSE /\ pc' = "labels" /\ exitStatus' = exitStatus
            /\ items' = SortedItems(args.dirs)
            /\ category_to_id' = CategoryToId(SortedItems(args.dirs))
    /\ UNCHANGED <<script, args, fs, cursor, decoded, segments, fftFiles, pngFiles,
                   outTree, rows>>

\* every order random.shuffle can leave a list of these files in
Shuffles(files) ==
    {q \in [1..Cardinality(files) -> files] :
        \A i, j \in 1..Cardinality(files) : i # j => q[i] # q[j]}

\* shutil.copy2(src, os.path.join(cat_dir, os.path.basename(src))) for every
\* src of the list: the tree afterwards (a file of the same name is replaced)
CopyAll(tree, cat, list) == tree \cup {<<cat, list[n][2]>> : n \in DOMAIN list}

\* one turn of `for dir_path, cat in items` for a directory that holds files:
\* walk, shuffle, slice, copy
IndexLabel ==
    /\ script = "index_dataset" /\ pc = "labels"
    /\ cursor <= Len(items)
    /\ items[cursor].files # {}
    /\ \E files \in Shuffles(items[cursor].files) :
          LET n_train     == NTrain(Len(files), args.split)
              train_files == SubSeq(files, 1, n_train)
              test_files  == SubSeq(files, n_train + 1, Len(files))
          IN  outTree' = [outTree EXCEPT
                            !.train = CopyAll(@, items[cursor].cat, train_files),
                            !.test  = CopyAll(@, items[cursor].cat, test_files)]
    /\ cursor' = cursor + 1
    /\ UNCHANGED <<pc, script, args, fs, decoded, segments, fftFiles, pngFiles,
                   exitStatus, items, category_to_id, rows>>

\* one turn for a directory without files: the warning, then `continue`
IndexLabelEmpty ==
    /\ script = "index_dataset" /\ pc = "labels"
    /\ cursor <= Len(items)
    /\ items[cursor].files = {}
    /\ cursor' = cursor + 1
    /\ UNCHANGED <<pc, script, args, fs, decoded, segments, fftFiles, pngFiles,
                   exitStatus, items, category_to_id, outTree, rows>>

\* the rows collected by walking one output tree: every file but index.csv,
\* with the id of the directory it lies in
RowsOf(tree) ==
    {[cat |-> e[1], fname |-> e[2], cid |-> CategoryIdOf(e[1])] :
        e \in {t \in tree : t[2] # NameIndex}}

\* the loop is over: the rows of <output_name>_train/index.csv are written
IndexWriteTrain ==
    /\ script = "index_dataset" /\ pc = "labels"
    /\ cursor > Len(items)
    /\ rows' = [rows EXCEPT !.train = RowsOf(outTree.train)]
    /\ pc' = "test_index"
    /\ UNCHANGED <<script, args, fs, cursor, decoded, segments, fftFiles, pngFiles,
                   exitStatus, items, category_to_id, outTree>>

\* then the rows of <output_name>_test/index.csv, and main returns
IndexWriteTest ==
    /\ script = "index_dataset" /\ pc = "test_index"
    /\ rows' = [rows EXCEPT !.test = RowsOf(outTree.test)]
    /\ pc' = "done" /\ exitStatus' = "0"
    /\ UNCHANGED <<script, args, fs, cursor, decoded, segments, fftFiles, pngFiles,
                   items, category_to_id, outTree>>

NextIndex ==
    \/ IndexMain
    \/ IndexLabel
    \/ IndexLabelEmpty
    \/ IndexWriteTrain
    \/ IndexWriteTest

SpecIndex == InitIndex /\ [][NextIndex]_vars

--------------------------------------------------------------------------
(* Properties of index_dataset.py *)

\* the label names given on the command line: basenames of the directories
ProvidedLabels == {args.dirs[n].cat : n \in {m \in DOMAIN args.dirs : args.dirs[m].isdir}}

\* position of a label, from 0, among the provided labels in str order
LabelRank(c) == Cardinality({d \in ProvidedLabels : LexLess(d, c)})

\* no two provided directories have the same basename
LabelsDistinct ==
    \A m, n \in DOMAIN args.dirs :
        (m # n /\ args.dirs[m].isdir /\ args.dirs[n].isdir) => args.dirs[m].cat # args.dirs[n].cat

IndexDone == script = "index_dataset" /\ pc = "done" /\ exitStatus = "0"

\* C7 as claimed: the id of each label is its lexicographic rank among the
\* provided labels, the ids are 0..k-1 for k labels, and every row of the two
\* index tables carries the id of the label directory its file came from
\* (stated here for runs that start from empty output directories).
C7_IdIsRank ==
    (IndexDone /\ outTree.stale = {}) =>
        /\ \A c \in ProvidedLabels : category_to_id[c] = LabelRank(c)
        /\ {category_to_id[c] : c \in ProvidedLabels} = 0..(Cardinality(ProvidedLabels) - 1)
        /\ \A r \in rows.train \cup rows.test :
              r.cat \in ProvidedLabels /\ r.cid = LabelRank(r.cat)

\* C10 as claimed: after a run from empty output directories, for every label
\* with n files under its directory, no file name is in both
\* train/data/<label> and test/data/<label>, and the two index tables hold
\* n rows of that label together.
C10_TrainTestPartition ==
    (IndexDone /\ LabelsDistinct /\ outTree.stale = {}) =>
        \A n \in DOMAIN items :
            LET c == items[n].cat
            IN  /\ {e[2] : e \in {t \in outTree.train : t[1] = c}}
                     \cap {e[2] : e \in {t \in outTree.test : t[1] = c}} = {}
                /\ Cardinality({r \in rows.train : r.cat = c})
                     + Cardinality({r \in rows.test : r.cat = c})
                   = Cardinality(items[n].files)

==========================================================================
